---- MODULE Spec2Model ----
(***************************************************************************)
(* Model of MyAviary (src/Base.py): the single-drone reinforcement-        *)
(* learning environment adapter over the physics engine.                  *)
(*                                                                         *)
(* Real quantities are fixed-point integers:                               *)
(*   positions, angles, velocities, actions : units of 1/Milli             *)
(*   motor speeds                           : units of 1/RPM_UNIT rpm      *)
(*   rewards                                : units of 1/(Milli*Milli)     *)
(* Python's None is the empty tuple, a set attribute x is <<x>>.           *)
(***************************************************************************)
EXTENDS Integers, Sequences, FiniteSets, TLC

VARIABLES
    phase,             \* "new" | "ready" | "exited"  (outcome of __init__)
    ACT_TYPE,          \* self.ACT_TYPE
    OBS_TYPE,          \* self.OBS_TYPE
    ctrl,              \* self.ctrl: "DSLPIDControl" | "SimplePIDControl" | "unset"
    AGGR_PHY_STEPS,    \* self.AGGR_PHY_STEPS
    action_space,      \* the Box returned by _actionSpace at construction
    observation_space, \* the Box returned by _observationSpace at construction
    target_ID,         \* self.target_ID
    prev_action,       \* self.prev_action
    prev_,             \* self.prev_   (the attribute _addTarget assigns)
    target_position,   \* self.target_position
    state,             \* the drone state vector of _getDroneStateVector(0)
    INIT_XYZS,         \* self.INIT_XYZS[0]
    step_counter,      \* self.step_counter
    rgb,               \* self.rgb[0], the last captured image
    bodies,            \* physics engine: marker body id -> position
    loads,             \* physics engine: number of loadURDF calls made by _addTarget
    lastOp,            \* the operation that returned last
    arg,               \* its argument
    ret,               \* its return value
    da                 \* the local da of the last _computeReward, before the norm

vars == <<phase, ACT_TYPE, OBS_TYPE, ctrl, AGGR_PHY_STEPS, action_space,
          observation_space, target_ID, prev_action, prev_, target_position,
          state, INIT_XYZS, step_counter, rgb, bodies, loads, lastOp, arg, ret, da>>

config == <<phase, ACT_TYPE, OBS_TYPE, ctrl, AGGR_PHY_STEPS, action_space,
            observation_space, INIT_XYZS>>

----------------------------------------------------------------------------
(* Fixed-point scales and bounds *)

Milli == 10 * 10 * 10
RPM_UNIT == 20 * Milli
Micro == Milli * Milli

MaxStep == 2       \* physics steps modelled per episode
MaxLoads == 2      \* loadURDF calls by _addTarget the engine is followed for

None == <<>>
Some(x) == <<x>>
Unbound == <<"unbound">>

----------------------------------------------------------------------------
(* Numeric helpers (numpy) *)

Abs(x) == IF x < 0 THEN -x ELSE x

\* division of fixed-point numbers, rounded toward zero
FixDiv(a, b) == IF a >= 0 THEN a \div b ELSE -((-a) \div b)

RECURSIVE SumSq(_)
SumSq(v) == IF v = <<>> THEN 0 ELSE Head(v) * Head(v) + SumSq(Tail(v))

RECURSIVE SqrtBetween(_, _, _)
SqrtBetween(n, lo, hi) ==
    IF lo >= hi THEN lo
    ELSE LET mid == (lo + hi + 1) \div 2
         IN  IF mid * mid <= n THEN SqrtBetween(n, mid, hi)
             ELSE SqrtBetween(n, lo, mid - 1)

\* np.linalg.norm, rounded down to the fixed-point grid
Norm(v) == SqrtBetween(SumSq(v), 0, 46340)

VSub(a, b) == [i \in 1..Len(a) |-> a[i] - b[i]]
VDiv(a, k) == [i \in 1..Len(a) |-> FixDiv(a[i], k)]
Zeros(n) == [i \in 1..n |-> 0]
Ones(n) == [i \in 1..n |-> Milli]
Neg(v) == [i \in 1..Len(v) |-> -v[i]]
Repeat(v, n) == [i \in 1..(Len(v) * n) |-> v[((i - 1) \div n) + 1]]

----------------------------------------------------------------------------
(* Enumerations and collaborator constants *)

ActionType == {"RPM", "DYN", "THR", "PID", "VEL", "TUN",
               "ONE_D_RPM", "ONE_D_DYN", "ONE_D_PID"}

ObservationType == {"KIN", "RGB"}

\* drone_model values: the three with a controller mapping and one without
DroneModel == {"CF2X", "CF2P", "HB", "OTHER"}

HOVER_RPM == 14468
IMG_RES == <<64, 48>>
IMG_CAPTURE_FREQ == 2

POS_LIMIT == 3 * Milli
Z_MIN == 20
HALF_PI == 1570    \* floor(Milli * pi / 2): on the grid |a| > pi/2 iff |a| > 1570

----------------------------------------------------------------------------
(* Physics-engine collaborator *)

\* The state vector: pos = state[0:3], rpy = state[7:10], vel = state[10:13],
\* ang_v = state[13:16], rpm = state[16:20] (the last motor speeds).
DroneState(pos, rpy, vel, ang_v, rpm) ==
    [pos |-> pos, rpy |-> rpy, vel |-> vel, ang_v |-> ang_v, rpm |-> rpm]

\* the drone at its initial pose, at rest, motors not yet commanded
InitialState(xyz) == DroneState(xyz, Zeros(3), Zeros(3), Zeros(3), Zeros(4))

\* p.getMatrixFromQuaternion(p.getQuaternionFromEuler(rpy)): nine entries,
\* each a term of the engine's own arithmetic
RotationMatrix(rpy) == [i \in 1..9 |-> [entry |-> i, of |-> rpy]]

\* an image of the (IMG_RES[1], IMG_RES[0], 4) buffer self.rgb[0]
Image(frame) == [shape |-> <<IMG_RES[2], IMG_RES[1], 4>>, frame |-> frame]
BlankImage == Image(None)

----------------------------------------------------------------------------
(* Pure functions of MyAviary *)

ClosedLoop == {"PID", "VEL", "TUN", "THR", "ONE_D_PID"}

\* _actionSpace without its THR branch
ActionSize_NoThr(act) ==
    IF act = "TUN" THEN 6
    ELSE IF act \in {"RPM", "DYN", "VEL"} THEN 4
    ELSE IF act = "PID" THEN 3
    ELSE IF act \in {"ONE_D_RPM", "ONE_D_DYN", "ONE_D_PID"} THEN 1
    ELSE 0

\* size chosen by _actionSpace; 0 stands for the error branch
ActionSize(act) ==
    IF act = "TUN" THEN 6
    ELSE IF act \in {"RPM", "DYN", "VEL"} THEN 4
    ELSE IF act = "PID" THEN 3
    ELSE IF act \in {"ONE_D_RPM", "ONE_D_DYN", "ONE_D_PID"} THEN 1
    ELSE IF act = "THR" THEN 4
    ELSE 0

Box(low, high) == [low |-> low, high |-> high, shape |-> <<Len(low)>>]
NoSpace == [low |-> <<>>, high |-> <<>>, shape |-> <<>>]

ActionSpace(act) == Box(Neg(Ones(ActionSize(act))), Ones(ActionSize(act)))

ObservationSpace(obs) ==
    IF obs = "RGB"
    THEN [low |-> 0, high |-> 255, shape |-> <<IMG_RES[2], IMG_RES[1], 4>>]
    ELSE IF obs = "KIN"
    THEN Box(<<-Milli, -Milli, 0, -Milli, -Milli, -Milli,
               -Milli, -Milli, -Milli, -Milli, -Milli, -Milli>>,
             <<Milli, Milli, Milli, Milli, Milli, Milli,
               Milli, Milli, Milli, Milli, Milli, Milli>>)
    ELSE NoSpace

\* the controller __init__ creates for (act, drone_model)
Controller(act, dm) ==
    IF act \in ClosedLoop
    THEN IF dm \in {"CF2X", "CF2P"} THEN "DSLPIDControl"
         ELSE IF dm = "HB" THEN "SimplePIDControl"
         ELSE "unset"     \* prints [ERROR] and goes on
    ELSE "unset"

\* the decode with a scaling of 0.5 in place of 0.05
RpmOfAction_Half(action) ==
    [i \in 1..Len(action) |->
        HOVER_RPM * (RPM_UNIT + (5 * action[i] * RPM_UNIT) \div (10 * Milli))]

\* HOVER_RPM * (1 + 0.05 * action), elementwise
RpmOfAction(action) ==
    [i \in 1..Len(action) |->
        HOVER_RPM * (RPM_UNIT + (5 * action[i] * RPM_UNIT) \div (100 * Milli))]

\* the inverse without its offset: (action / HOVER_RPM) * 20.0
InvProcessAction_NoOffset(rpm) ==
    [i \in 1..Len(rpm) |->
        FixDiv((rpm[i] \div HOVER_RPM) * 20, RPM_UNIT \div Milli)]

\* ((action / HOVER_RPM) - 1.0) * 20.0, elementwise
InvProcessAction(rpm) ==
    [i \in 1..Len(rpm) |->
        FixDiv(((rpm[i] \div HOVER_RPM) - RPM_UNIT) * 20, RPM_UNIT \div Milli)]

\* a first call that takes the previous action to be the current one
DaOf_FirstZero(action, prev, aggr) ==
    IF prev # None THEN VDiv(VSub(action, prev[1]), aggr)
    ELSE Zeros(Len(action))

\* the da of _computeReward for the stored previous action
DaOf(action, prev, aggr) ==
    IF prev # None THEN VDiv(VSub(action, prev[1]), aggr)
    ELSE VDiv(action, aggr)

\* the reward of _computeReward, in units of 1/Micro
RewardOf(s, target, prev, aggr) ==
    LET action  == InvProcessAction(s.rpm)
        danorm  == Norm(DaOf(action, prev, aggr))
        pos_err == Norm(VSub(s.pos, target))
        att_err == Norm(s.rpy)
        vel_err == Norm(s.vel)
        act_err == Norm(action)
    IN  2 * Micro - Milli * pos_err - 40 * vel_err - 20 * att_err
                  - 20 * act_err - 1 * danorm

\* _computeDone
DoneOf(s) ==
    IF \/ Abs(s.pos[1]) > POS_LIMIT
       \/ Abs(s.pos[2]) > POS_LIMIT
       \/ Abs(s.pos[3]) > POS_LIMIT
       \/ Abs(s.pos[3]) < Z_MIN
    THEN TRUE
    ELSE IF \/ Abs(s.rpy[1]) > HALF_PI
            \/ Abs(s.rpy[2]) > HALF_PI
            \/ Abs(s.rpy[3]) > HALF_PI
    THEN TRUE
    ELSE FALSE

\* the KIN observation of _computeObs
KinObs(s, target) ==
    VSub(target, s.pos) \o s.vel \o s.ang_v \o RotationMatrix(s.rpy)

----------------------------------------------------------------------------
(* Construction *)

\* the arguments of __init__ and whether the instantiated class implements
\* _trajectoryTrackingRPMs
Config(dm, xyz, aggr, obs, act, hasTraj) ==
    [drone_model |-> dm, initial_xyzs |-> xyz, aggregate_phy_steps |-> aggr,
     obs |-> obs, act |-> act, hasTraj |-> hasTraj]

\* the fields no constructor has written yet
Blank ==
    [phase |-> "new", ACT_TYPE |-> "unset", OBS_TYPE |-> "unset", ctrl |-> "unset",
     AGGR_PHY_STEPS |-> 1, action_space |-> NoSpace, observation_space |-> NoSpace,
     target_ID |-> None, prev_action |-> None, prev_ |-> Unbound,
     target_position |-> Zeros(3), state |-> InitialState(Zeros(3)),
     INIT_XYZS |-> Zeros(3), step_counter |-> 0, rgb |-> BlankImage]

\* __init__: the fields after construction; phase "exited" when an exit() ran
MyAviaryInit(cfg) ==
    LET exitSpace == ActionSize(cfg.act) = 0
        exitTun   == cfg.act = "TUN" /\ ~cfg.hasTraj
    IN  [phase |-> IF exitSpace \/ exitTun THEN "exited" ELSE "ready",
         ACT_TYPE |-> cfg.act,
         OBS_TYPE |-> cfg.obs,
         ctrl |-> Controller(cfg.act, cfg.drone_model),
         AGGR_PHY_STEPS |-> cfg.aggregate_phy_steps,
         action_space |-> IF exitSpace THEN NoSpace ELSE ActionSpace(cfg.act),
         observation_space |-> IF exitSpace THEN NoSpace ELSE ObservationSpace(cfg.obs),
         target_ID |-> None,
         prev_action |-> None,
         prev_ |-> Unbound,
         target_position |-> IF exitSpace \/ exitTun THEN Zeros(3) ELSE cfg.initial_xyzs,
         state |-> InitialState(cfg.initial_xyzs),
         INIT_XYZS |-> cfg.initial_xyzs,
         step_counter |-> 0,
         rgb |-> BlankImage]

\* the environment holds the fields r, the engine holds no marker
Holds(r) ==
    /\ phase = r.phase
    /\ ACT_TYPE = r.ACT_TYPE
    /\ OBS_TYPE = r.OBS_TYPE
    /\ ctrl = r.ctrl
    /\ AGGR_PHY_STEPS = r.AGGR_PHY_STEPS
    /\ action_space = r.action_space
    /\ observation_space = r.observation_space
    /\ target_ID = r.target_ID
    /\ prev_action = r.prev_action
    /\ prev_ = r.prev_
    /\ target_position = r.target_position
    /\ state = r.state
    /\ INIT_XYZS = r.INIT_XYZS
    /\ step_counter = r.step_counter
    /\ rgb = r.rgb
    /\ bodies = <<>>
    /\ loads = 0
    /\ lastOp = "init"
    /\ arg = None
    /\ ret = None
    /\ da = None

Construct(cfg) ==
    /\ phase = "new"
    /\ LET r == MyAviaryInit(cfg)
       IN  /\ phase' = r.phase
           /\ ACT_TYPE' = r.ACT_TYPE
           /\ OBS_TYPE' = r.OBS_TYPE
           /\ ctrl' = r.ctrl
           /\ AGGR_PHY_STEPS' = r.AGGR_PHY_STEPS
           /\ action_space' = r.action_space
           /\ observation_space' = r.observation_space
           /\ target_ID' = r.target_ID
           /\ prev_action' = r.prev_action
           /\ prev_' = r.prev_
           /\ target_position' = r.target_position
           /\ state' = r.state
           /\ INIT_XYZS' = r.INIT_XYZS
           /\ step_counter' = r.step_counter
           /\ rgb' = r.rgb
    /\ lastOp' = "init"
    /\ arg' = cfg
    /\ UNCHANGED <<bodies, loads, ret, da>>

----------------------------------------------------------------------------
(* Operations on a constructed environment *)

\* the truth value Python gives self.target_ID
Truthy(id) == id # None /\ id[1] # 0

BodyIds == 0..MaxLoads

\* _addTarget storing the position only when the marker is shown
AddTarget_VisualOnly(position, visual) ==
    /\ phase = "ready"
    /\ target_position' = IF visual THEN position ELSE target_position
    /\ prev_' = None
    /\ IF visual
       THEN IF ~Truthy(target_ID)
            THEN /\ loads < MaxLoads
                 /\ \E id \in BodyIds \ DOMAIN bodies :
                        /\ target_ID' = Some(id)
                        /\ bodies' = [b \in DOMAIN bodies \cup {id} |->
                                         IF b = id THEN position ELSE bodies[b]]
                 /\ loads' = loads + 1
            ELSE /\ bodies' = [bodies EXCEPT ![target_ID[1]] = position]
                 /\ UNCHANGED <<target_ID, loads>>
       ELSE UNCHANGED <<target_ID, bodies, loads>>
    /\ lastOp' = "addTarget"
    /\ arg' = <<position, visual>>
    /\ ret' = None
    /\ UNCHANGED <<config, prev_action, state, step_counter, rgb, da>>

\* _addTarget(position, visual)
AddTarget(position, visual) ==
    /\ phase = "ready"
    /\ target_position' = position
    /\ prev_' = None
    /\ IF visual
       THEN IF ~Truthy(target_ID)
            THEN /\ loads < MaxLoads
                 /\ \E id \in BodyIds \ DOMAIN bodies :
                        /\ target_ID' = Some(id)
                        /\ bodies' = [b \in DOMAIN bodies \cup {id} |->
                                         IF b = id THEN position ELSE bodies[b]]
                 /\ loads' = loads + 1
            ELSE /\ bodies' = [bodies EXCEPT ![target_ID[1]] = position]
                 /\ UNCHANGED <<target_ID, loads>>
       ELSE UNCHANGED <<target_ID, bodies, loads>>
    /\ lastOp' = "addTarget"
    /\ arg' = <<position, visual>>
    /\ ret' = None
    /\ UNCHANGED <<config, prev_action, state, step_counter, rgb, da>>

\* _preprocessAction for RPM and ONE_D_RPM
PreprocessActionRpm(action) ==
    /\ phase = "ready"
    /\ ACT_TYPE \in {"RPM", "ONE_D_RPM"}
    /\ ret' = IF ACT_TYPE = "RPM" THEN RpmOfAction(action)
              ELSE Repeat(RpmOfAction(action), 4)
    /\ lastOp' = "preprocessAction"
    /\ arg' = action
    /\ UNCHANGED <<config, target_ID, prev_action, prev_, target_position, state,
                   step_counter, rgb, bodies, loads, da>>

\* _preprocessAction for the types decoded by a collaborator (the controller,
\* nnlsRPM or _trajectoryTrackingRPMs), which returns the motor speeds rpm
PreprocessActionExt(action, rpm) ==
    /\ phase = "ready"
    /\ ACT_TYPE \notin {"RPM", "ONE_D_RPM"}
    /\ ACT_TYPE \in ClosedLoop => ctrl # "unset"
    /\ ret' = rpm
    /\ lastOp' = "preprocessAction"
    /\ arg' = action
    /\ UNCHANGED <<config, target_ID, prev_action, prev_, target_position, state,
                   step_counter, rgb, bodies, loads, da>>

\* _computeObs capturing on every call, whatever the step counter
ComputeObs_EveryCall ==
    /\ phase = "ready"
    /\ IF OBS_TYPE = "RGB"
       THEN /\ rgb' = Image(Some(step_counter))
            /\ ret' = rgb'
       ELSE /\ ret' = KinObs(state, target_position)
            /\ UNCHANGED rgb
    /\ lastOp' = "computeObs"
    /\ arg' = None
    /\ UNCHANGED <<config, target_ID, prev_action, prev_, target_position, state,
                   step_counter, bodies, loads, da>>

\* _computeObs
ComputeObs ==
    /\ phase = "ready"
    /\ IF OBS_TYPE = "RGB"
       THEN /\ rgb' = IF step_counter % IMG_CAPTURE_FREQ = 0
                      THEN Image(Some(step_counter))
                      ELSE rgb
            /\ ret' = rgb'
       ELSE /\ ret' = KinObs(state, target_position)
            /\ UNCHANGED rgb
    /\ lastOp' = "computeObs"
    /\ arg' = None
    /\ UNCHANGED <<config, target_ID, prev_action, prev_, target_position, state,
                   step_counter, bodies, loads, da>>

\* _computeReward storing the action only while none is stored
ComputeReward_StoreOnce ==
    /\ phase = "ready"
    /\ da' = Some(DaOf(InvProcessAction(state.rpm), prev_action, AGGR_PHY_STEPS))
    /\ prev_action' = IF prev_action = None THEN Some(InvProcessAction(state.rpm))
                    ELSE prev_action
    /\ ret' = RewardOf(state, target_position, prev_action, AGGR_PHY_STEPS)
    /\ lastOp' = "computeReward"
    /\ arg' = None
    /\ UNCHANGED <<config, target_ID, prev_, target_position, state,
                   step_counter, rgb, bodies, loads>>

\* _computeReward
ComputeReward ==
    /\ phase = "ready"
    /\ da' = Some(DaOf(InvProcessAction(state.rpm), prev_action, AGGR_PHY_STEPS))
    /\ prev_action' = Some(InvProcessAction(state.rpm))
    /\ ret' = RewardOf(state, target_position, prev_action, AGGR_PHY_STEPS)
    /\ lastOp' = "computeReward"
    /\ arg' = None
    /\ UNCHANGED <<config, target_ID, prev_, target_position, state,
                   step_counter, rgb, bodies, loads>>

\* _computeDone
ComputeDone ==
    /\ phase = "ready"
    /\ ret' = DoneOf(state)
    /\ lastOp' = "computeDone"
    /\ arg' = None
    /\ UNCHANGED <<config, target_ID, prev_action, prev_, target_position, state,
                   step_counter, rgb, bodies, loads, da>>

\* one physics step of the engine: the drone is in state s afterwards
Physics(s) ==
    /\ phase = "ready"
    /\ step_counter < MaxStep
    /\ state' = s
    /\ step_counter' = step_counter + 1
    /\ lastOp' = "physics"
    /\ arg' = None
    /\ ret' = None
    /\ UNCHANGED <<config, target_ID, prev_action, prev_, target_position,
                   rgb, bodies, loads, da>>

\* reset(), inherited: the drone is back at its initial pose and the step
\* counter at zero; MyAviary overrides nothing of it
Reset ==
    /\ phase = "ready"
    /\ state' = InitialState(INIT_XYZS)
    /\ step_counter' = 0
    /\ lastOp' = "reset"
    /\ arg' = None
    /\ ret' = None
    /\ UNCHANGED <<config, target_ID, prev_action, prev_, target_position,
                   rgb, bodies, loads, da>>

----------------------------------------------------------------------------
(* Inputs *)

Hover4 == [i \in 1..4 |-> HOVER_RPM * RPM_UNIT]

InitPositions == {<<0, 0, 500>>, <<1000, 0, 500>>}
TargetPositions == {<<0, 0, 500>>, <<1000, 0, 1000>>}
AggrValues == {1, 2}

\* action elements in [-1, 1]
ActVals == {-Milli, 0, 250, Milli}
Actions(k) == {[i \in 1..k |-> a] : a \in ActVals}
                 \cup {[i \in 1..k |-> IF i = 1 THEN a ELSE 0] : a \in ActVals}

\* motor speeds the engine reports as last applied
RpmVecs == {Hover4, Zeros(4), RpmOfAction(<<Milli, Milli, Milli, Milli>>),
            RpmOfAction(<<Milli, -Milli, 0, 500>>)}

\* motor speeds a controller or solver returns
ExtRpms == {Hover4, RpmOfAction(<<500, 500, 500, 500>>)}

\* drone states around every threshold of _computeDone
PosVecs == {<<0, 0, 500>>, <<3000, -3000, 3000>>, <<3001, 0, 500>>, <<-3001, 0, 500>>,
            <<0, 3001, 500>>, <<0, -3001, 500>>, <<0, 0, 3001>>, <<0, 0, -3001>>,
            <<0, 0, 20>>, <<0, 0, 19>>, <<0, 0, 0>>, <<0, 0, -19>>, <<0, 0, -20>>,
            <<0, 0, -1000>>}
RpyVecs == {<<1570, -1570, 1570>>, <<1571, 0, 0>>, <<-1571, 0, 0>>, <<0, 1571, 0>>,
            <<0, -1571, 0>>, <<0, 0, 1571>>, <<0, 0, -1571>>}
DoneStates ==
    {DroneState(pos, Zeros(3), Zeros(3), Zeros(3), Hover4) : pos \in PosVecs}
      \cup {DroneState(pos, rpy, Zeros(3), Zeros(3), Hover4) :
               pos \in {<<0, 0, 500>>, <<3000, -3000, 3000>>, <<0, 0, -1000>>,
                        <<3001, 0, 500>>},
               rpy \in RpyVecs}

\* drone states that vary every term of the reward
RewardStates == {DroneState(pos, rpy, vel, Zeros(3), rpm) :
                    pos \in InitPositions,
                    rpy \in {Zeros(3), <<100, -200, 0>>},
                    vel \in {Zeros(3), <<30, -40, 0>>},
                    rpm \in RpmVecs}

\* a few drone states for the specifications about configuration and targets
LightStates == {DroneState(<<0, 0, 500>>, Zeros(3), Zeros(3), Zeros(3), Hover4),
                DroneState(<<1000, 0, 1000>>, <<100, -200, 0>>, <<30, -40, 0>>,
                           <<0, 0, 10>>, RpmOfAction(<<Milli, -Milli, 0, 500>>)),
                DroneState(<<0, 0, 10>>, <<0, 1571, 0>>, Zeros(3), Zeros(3), Zeros(4))}

DefaultConfigs(xyzs) ==
    {Config("CF2X", xyz, aggr, "KIN", "RPM", FALSE) :
        xyz \in xyzs, aggr \in AggrValues}

AllConfigs ==
    {Config(dm, <<0, 0, 500>>, 1, obs, act, hasTraj) :
        dm \in DroneModel, obs \in ObservationType, act \in ActionType,
        hasTraj \in BOOLEAN}

----------------------------------------------------------------------------
(* Specifications *)

\* a default environment (CF2X, KIN, RPM) under every operation
Init == \E cfg \in DefaultConfigs({<<0, 0, 500>>}) : Holds(MyAviaryInit(cfg))

Next ==
    \/ \E position \in TargetPositions, visual \in BOOLEAN : AddTarget(position, visual)
    \/ \E action \in Actions(ActionSize(ACT_TYPE)) : PreprocessActionRpm(action)
    \/ ComputeObs
    \/ ComputeReward
    \/ ComputeDone
    \/ \E s \in LightStates : Physics(s)
    \/ Reset

Spec == Init /\ [][Next]_vars

\* construction with every configuration, then decoding and observing
InitConfig == Holds(Blank)

NextConfig ==
    \/ \E cfg \in AllConfigs : Construct(cfg)
    \/ \E action \in Actions(ActionSize(ACT_TYPE)) : PreprocessActionRpm(action)
    \/ \E action \in Actions(ActionSize(ACT_TYPE)), rpm \in ExtRpms :
           PreprocessActionExt(action, rpm)
    \/ ComputeObs
    \/ \E s \in LightStates : Physics(s)

SpecConfig == InitConfig /\ [][NextConfig]_vars

\* the reward and termination evaluators over many drone states
InitEval == \E cfg \in DefaultConfigs(InitPositions) : Holds(MyAviaryInit(cfg))

NextEval ==
    \/ \E s \in DoneStates \cup RewardStates : Physics(s)
    \/ ComputeReward
    \/ ComputeDone
    \/ Reset

SpecEval == InitEval /\ [][NextEval]_vars

----------------------------------------------------------------------------
(* Claims *)

\* C1 (as stated): computeDone returns true exactly when some position
\* component exceeds 3 in magnitude, or z is below 0.02 (negative z included),
\* or some Euler angle exceeds pi/2 in magnitude.
C1_DoneIffBelowAltitude ==
    lastOp = "computeDone" =>
        (ret <=> \/ \E i \in 1..3 : Abs(state.pos[i]) > 3 * Milli
                 \/ state.pos[3] < 20
                 \/ \E i \in 1..3 : Abs(state.rpy[i]) > HALF_PI)

\* the drone sits on the target, at rest, level, motors at hover
AtGoal ==
    /\ state.pos = target_position
    /\ state.vel = Zeros(3)
    /\ state.rpy = Zeros(3)
    /\ state.rpm = Hover4

\* C2 (as stated): every computeReward call made at the goal returns exactly 2.0.
C2_RewardAtGoalIsTwo ==
    (lastOp = "computeReward" /\ AtGoal) => ret = 2 * Micro

\* C2 (amended): a computeReward call made at the goal while PreviousAction is
\* unset or the zero action returns exactly 2.0.
C2_RewardAtGoalIsTwoFromRest ==
    [][(/\ lastOp' = "computeReward"
        /\ AtGoal
        /\ prev_action \in {None, Some(Zeros(4))})
       => ret' = 2 * Micro]_vars

C2_Witness ==
    /\ lastOp = "computeReward"
    /\ AtGoal
    /\ step_counter > 0
    /\ da = Some(Zeros(4))
    /\ ret = 2 * Micro

\* action_phys = (last_motor_rpm / hover_rpm - 1) * 20, written as
\* 20 * (rpm - hover) / hover
ActionPhys(rpm) ==
    [i \in 1..Len(rpm) |->
        FixDiv(20 * Milli * FixDiv(rpm[i] - HOVER_RPM * RPM_UNIT, HOVER_RPM),
               RPM_UNIT)]

\* C3 (as stated): on a computeReward call with PreviousAction unset, da is the
\* zero vector whatever the last motor RPMs are.
C3_FirstDaIsZero ==
    [][(lastOp' = "computeReward" /\ prev_action = None)
       => da' = Some(Zeros(4))]_vars

\* C3 (amended): on a computeReward call with PreviousAction unset, the previous
\* action is taken to be zero: da is action_phys / steps_per_call, the reward
\* carries 0.001 * norm(da) of it, and da is the zero vector when the last motor
\* RPMs all equal the hover RPM.
C3_FirstDaIsAction ==
    [][(lastOp' = "computeReward" /\ prev_action = None)
       => /\ da' = Some(VDiv(ActionPhys(state.rpm), AGGR_PHY_STEPS))
          /\ ret' = 2 * Micro - Milli * Norm(VSub(state.pos, target_position))
                      - 40 * Norm(state.vel) - 20 * Norm(state.rpy)
                      - 20 * Norm(ActionPhys(state.rpm))
                      - Norm(VDiv(ActionPhys(state.rpm), AGGR_PHY_STEPS))
          /\ state.rpm = Hover4 => da' = Some(Zeros(4))]_vars

C3_Witness ==
    /\ lastOp = "computeReward"
    /\ state.rpm # Hover4
    /\ prev_action = Some(ActionPhys(state.rpm))
    /\ da = Some(VDiv(ActionPhys(state.rpm), AGGR_PHY_STEPS))
    /\ da # Some(Zeros(4))

\* C4 (as stated): after any setTarget call PreviousAction is unset.
C4_AddTargetUnsetsPrevAction ==
    lastOp = "addTarget" => prev_action = None

\* C5 (as stated): at most one visual marker is ever created, whatever identity
\* the engine returned for it.
C5_OneMarker ==
    loads <= 1 /\ Cardinality(DOMAIN bodies) <= 1

\* the shape of a returned observation
ShapeOf(obs) == IF OBS_TYPE = "RGB" THEN obs.shape ELSE <<Len(obs)>>

\* C6 (as stated): the observation computeObservation returns has the shape the
\* observation-space descriptor declares.
C6_ObsShapeIsDeclared ==
    lastOp = "computeObs" => ShapeOf(ret) = observation_space.shape

\* the widths the claim lists
ClaimWidth(act) ==
    CASE act \in {"RPM", "THR", "DYN", "VEL"} -> 4
      [] act = "PID" -> 3
      [] act \in {"ONE_D_RPM", "ONE_D_DYN", "ONE_D_PID"} -> 1
      [] act = "TUN" -> 6

\* C7: the action space has bounds -1 and 1 on every element and the width of
\* the configured ActionType; no variant reaches the unsupported-type exit.
C7_ActionSpaceWidth ==
    phase # "new" =>
        /\ action_space.low = [i \in 1..ClaimWidth(ACT_TYPE) |-> -Milli]
        /\ action_space.high = [i \in 1..ClaimWidth(ACT_TYPE) |-> Milli]
        /\ phase = "exited" => ACT_TYPE = "TUN"

C7_Witness ==
    /\ phase = "ready"
    /\ ACT_TYPE = "THR"
    /\ action_space.shape = <<4>>

\* C8 (as stated): no environment with a closed-loop action type is produced
\* without a controller.
C8_NoInstanceWithoutController ==
    (phase = "ready" /\ ACT_TYPE \in ClosedLoop) => ctrl # "unset"

\* C9 (as stated): after every reset PreviousAction is unset.
C9_ResetUnsetsPrevAction ==
    lastOp = "reset" => prev_action = None

\* C10: for RPM and ONE_D_RPM the decode returns 4 motor values, each
\* hover_rpm * (1 + 0.05 * a) for its action element a: hover_rpm for a = 0,
\* and within [0.95, 1.05] * hover_rpm and non-negative.
C10_RpmDecode ==
    (lastOp = "preprocessAction" /\ ACT_TYPE \in {"RPM", "ONE_D_RPM"}) =>
        /\ Len(ret) = 4
        /\ \A i \in 1..4 :
              LET a == IF ACT_TYPE = "RPM" THEN arg[i] ELSE arg[1]
              IN  /\ ret[i] = HOVER_RPM * RPM_UNIT
                                + HOVER_RPM * a * (RPM_UNIT \div (20 * Milli))
                  /\ a = 0 => ret[i] = HOVER_RPM * RPM_UNIT
                  /\ 19 * HOVER_RPM * (RPM_UNIT \div 20) <= ret[i]
                  /\ ret[i] <= 21 * HOVER_RPM * (RPM_UNIT \div 20)
                  /\ ret[i] >= 0

C10_Witness ==
    /\ lastOp = "preprocessAction"
    /\ ACT_TYPE = "ONE_D_RPM"
    /\ arg = <<Milli>>
    /\ ret = [i \in 1..4 |-> 21 * HOVER_RPM * Milli]

\* C11: TargetPosition is the drone's initial position until the first
\* setTarget call, every setTarget call (visual or not) stores its position,
\* and no other operation changes TargetPosition.
C11_TargetIsLastSet ==
    /\ [](prev_ = Unbound => target_position = INIT_XYZS)
    /\ [][IF lastOp' = "addTarget"
          THEN target_position' = arg'[1]
          ELSE target_position' = target_position]_vars

C11_Witness ==
    /\ lastOp = "computeReward"
    /\ prev_ = None
    /\ target_position = <<1000, 0, 1000>>
    /\ target_position # INIT_XYZS
    /\ target_ID = None
    /\ step_counter > 0

\* the step counter is a multiple of the capture period n
IsMultiple(k, n) == \E m \in 0..k : k = m * n

\* C12: with the image observation type, computeObservation captures a new
\* image exactly on the calls where the step counter is a multiple of the capture
\* period (step 0 included); on every other call the stored image is left as
\* it is and is the one returned.
C12_CaptureEveryNthStep ==
    [][(lastOp' = "computeObs" /\ OBS_TYPE = "RGB") =>
          IF IsMultiple(step_counter, IMG_CAPTURE_FREQ)
          THEN rgb' = Image(Some(step_counter)) /\ ret' = rgb'
          ELSE rgb' = rgb /\ ret' = rgb]_vars

C12_Witness ==
    /\ lastOp = "computeObs"
    /\ OBS_TYPE = "RGB"
    /\ step_counter = 1
    /\ ret = Image(Some(0))
    /\ rgb = ret

\* C13: every computeReward call, with PreviousAction unset or set, stores
\* action_phys of the state it saw; nothing else writes the slot, and a call
\* that finds it set takes da = (action_phys - PreviousAction) / steps_per_call.
C13_PrevActionIsLastSeen ==
    /\ [](lastOp = "computeReward" => prev_action = Some(ActionPhys(state.rpm)))
    /\ [][/\ lastOp' # "computeReward" => prev_action' = prev_action
          /\ (lastOp' = "computeReward" /\ prev_action # None) =>
                da' = Some([i \in 1..4 |->
                              FixDiv(ActionPhys(state.rpm)[i] - prev_action[1][i],
                                     AGGR_PHY_STEPS)])]_vars

C13_Witness ==
    /\ lastOp = "computeReward"
    /\ state.rpm = Hover4
    /\ prev_action = Some(Zeros(4))
    /\ AGGR_PHY_STEPS = 2
    /\ da = Some(<<-500, 500, 0, -250>>)

====
